---------------------------- MODULE Spec2Model ----------------------------
(***************************************************************************)
(* Model of wirexfers' IPizza banklink providers:                          *)
(*   wirexfers/providers/ipizza.py  IPizzaProviderBase and its bank        *)
(*                                  variants (payment initiation)          *)
(*   wirexfers/providers/hire.py    EELHVProvider (LHV hire, the           *)
(*                                  document-exchange sub-protocol)        *)
(*                                                                         *)
(* Text is modelled as a sequence of one-character strings, bytes as a     *)
(* sequence of byte tokens (an ASCII character is its own byte token).     *)
(* A timestamp text is reduced to the decimal seconds of its wall clock    *)
(* ("%Y-%m-%dT%H:%M:%S") followed by an optional UTC offset: a sign and    *)
(* the decimal seconds of the offset ("+hh:mm").                           *)
(* A signature is ideal: it verifies under a public key exactly when it    *)
(* was made with the matching private key over the same byte string.       *)
(* The runtime is Python 2, which the code is written for.                 *)
(***************************************************************************)
EXTENDS Integers, Sequences, FiniteSets, TLC

(***************************************************************************)
(* Bounds of the model.                                                    *)
(***************************************************************************)
\* the clock reading (UTC seconds) of the first state
Now0 == 50000
\* how many seconds the clock advances at most
MaxTicks == 2

(***************************************************************************)
(* Text, numbers and encodings.                                            *)
(***************************************************************************)
Digits == <<"0", "1", "2", "3", "4", "5", "6", "7", "8", "9">>

DigitSet == {Digits[i] : i \in 1..10}

DigitVal(c) == (CHOOSE i \in 1..10 : Digits[i] = c) - 1

\* '%d' % n
RECURSIVE Str(_)
Str(n) == IF n < 10 THEN <<Digits[n + 1]>>
          ELSE Str(n \div 10) \o <<Digits[(n % 10) + 1]>>

\* '%03d' % n: at least three digits, zero-padded on the left
Pad3(n) == LET s == Str(n)
           IN  IF Len(s) >= 3 THEN s ELSE [i \in 1..(3 - Len(s)) |-> "0"] \o s

\* int(text) of a non-empty text of digits
RECURSIVE Int10(_)
Int10(s) == IF Len(s) = 0 THEN 0
            ELSE 10 * Int10(SubSeq(s, 1, Len(s) - 1)) + DigitVal(s[Len(s)])

IsDigits(s) == Len(s) > 0 /\ \A i \in 1..Len(s) : s[i] \in DigitSet

\* The characters of the model are ASCII characters, "{e'}" (a character of
\* ISO-8859-1 that takes two bytes in UTF-8) and "{euro}" (a character
\* ISO-8859-1 lacks, three bytes in UTF-8).

\* one character under UTF-8
Utf8Char(c) == IF c = "{e'}" THEN <<"C3", "A9">>
               ELSE IF c = "{euro}" THEN <<"E2", "82", "AC">>
               ELSE <<c>>

\* one character under .encode('latin', 'ignore'): what ISO-8859-1 lacks is dropped
Latin1IgnoreChar(c) == IF c = "{e'}" THEN <<"E9">>
                       ELSE IF c = "{euro}" THEN <<>>
                       ELSE <<c>>

\* text.encode('utf-8')
RECURSIVE Utf8(_)
Utf8(s) == IF Len(s) = 0 THEN <<>>
           ELSE IF Len(s) = 1 THEN Utf8Char(s[1])
           ELSE LET h == Len(s) \div 2
                IN  Utf8(SubSeq(s, 1, h)) \o Utf8(SubSeq(s, h + 1, Len(s)))

\* text.encode('latin', 'ignore')
RECURSIVE Latin1Ignore(_)
Latin1Ignore(s) == IF Len(s) = 0 THEN <<>>
                   ELSE IF Len(s) = 1 THEN Latin1IgnoreChar(s[1])
                   ELSE LET h == Len(s) \div 2
                        IN  Latin1Ignore(SubSeq(s, 1, h))
                              \o Latin1Ignore(SubSeq(s, h + 1, Len(s)))

(***************************************************************************)
(* Forms: a mapping from field names to texts; form.get(k) of an absent    *)
(* field is None.                                                          *)
(***************************************************************************)
EmptyMap == [k \in {} |-> <<>>]

None == <<"None">>

Has(form, k) == k \in DOMAIN form

Get(form, k) == IF Has(form, k) THEN form[k] ELSE None

\* 'VK_%s' % x
VK(x) == "VK_" \o x

(***************************************************************************)
(* _build_mac                                                              *)
(***************************************************************************)
RECURSIVE Join(_)
Join(parts) == IF Len(parts) = 0 THEN <<>>
               ELSE parts[1] \o Join(Tail(parts))

\* IPizzaProviderBase._build_mac, EEKrediidipankProvider._build_mac and hire's
\* EELHVProvider._build_mac: the length is the number of characters, the
\* joined text is encoded as UTF-8.  (Its caller has checked that no field
\* is None.)
BuildMacChars(fields, data) ==
    Utf8(Join([i \in 1..Len(fields) |->
        LET v == data[VK(fields[i])] IN Pad3(Len(v)) \o v]))

\* EEDanskeProvider._build_mac: each value is encoded as ISO-8859-1 first,
\* dropping what it cannot encode; the length is the number of bytes.
BuildMacBytesCharLen(fields, data) ==
    Join([i \in 1..Len(fields) |->
        LET v == data[VK(fields[i])] IN Pad3(Len(v)) \o Latin1Ignore(v)])

BuildMacBytes(fields, data) ==
    Join([i \in 1..Len(fields) |->
        LET b == Latin1Ignore(data[VK(fields[i])]) IN Pad3(Len(b)) \o b])

(***************************************************************************)
(* Keys and signatures.  VK_MAC carries base64 text: kind "sig" is text    *)
(* that b64decode accepts and that holds a signature made with private key *)
(* `key` over the bytes `m`; kind "badpad" is text b64decode rejects.      *)
(***************************************************************************)
KeyChain == [private_key |-> "merchant", public_key |-> "bank"]

\* b64encode(PKCS1_v1_5.new(private_key).sign(SHA.new(m)))
Sign(private_key, m) == [kind |-> "sig", key |-> private_key, m |-> m]

BadPadding == [kind |-> "badpad", key |-> "", m |-> <<>>]

\* PKCS1_v1_5.new(public_key).verify(SHA.new(m), signature)
Verify(public_key, m, sig) == sig.key = public_key /\ sig.m = m

(***************************************************************************)
(* Timestamps.                                                             *)
(***************************************************************************)
\* timedelta(seconds=300)
Window == 300

\* the text of wall-clock second `wall` with the UTC offset `off` (seconds);
\* sign "" gives a text without offset
TimeText(wall, sign, off) ==
    IF sign = "" THEN Str(wall) ELSE Str(wall) \o <<sign>> \o Str(off)

\* s.split('+')[0]
SplitPlus0(s) ==
    IF \E i \in 1..Len(s) : s[i] = "+"
    THEN LET p == CHOOSE i \in 1..Len(s) :
                      s[i] = "+" /\ \A j \in 1..(i - 1) : s[j] # "+"
         IN  SubSeq(s, 1, p - 1)
    ELSE s

\* datetime.strptime(s, "%Y-%m-%dT%H:%M:%S"): a naive wall-clock time, or
\* ValueError when the text is not exactly of the format
Strptime(s) == IF IsDigits(s) THEN [ok |-> TRUE, wall |-> Int10(s)]
               ELSE [ok |-> FALSE, wall |-> 0]

\* dateutil.parser.parse(s): the wall clock and, when the text carries one,
\* the UTC offset
ParseDate(s) ==
    LET signs == {i \in 1..Len(s) : s[i] \in {"+", "-"}}
    IN  IF signs = {}
        THEN [ok |-> IsDigits(s), aware |-> FALSE,
              wall |-> IF IsDigits(s) THEN Int10(s) ELSE 0, off |-> 0]
        ELSE LET p == CHOOSE i \in signs : \A j \in signs : i <= j
                 w == SubSeq(s, 1, p - 1)
                 o == SubSeq(s, p + 1, Len(s))
             IN  IF IsDigits(w) /\ IsDigits(o)
                 THEN [ok |-> TRUE, aware |-> TRUE, wall |-> Int10(w),
                       off |-> IF s[p] = "+" THEN Int10(o) ELSE 0 - Int10(o)]
                 ELSE [ok |-> FALSE, aware |-> FALSE, wall |-> 0, off |-> 0]

\* d.astimezone(pytz.utc) of an offset-bearing time: its instant
AsUtc(d) == d.wall - d.off

(***************************************************************************)
(* Outcomes of a call: the value returned or the exception raised.         *)
(***************************************************************************)
Raise(kind) == [kind |-> kind, success |-> FALSE, data |-> EmptyMap]

\* PaymentResponse(self, data, success)
PaymentResponse(data, success) ==
    [kind |-> "PaymentResponse", success |-> success, data |-> data]

(***************************************************************************)
(* Providers.                                                              *)
(***************************************************************************)
\* EELHVProvider, EESEBProvider and EESwedBankProvider of ipizza.py are, like
\* EEKrediidipankProvider here, IPizzaProviderBase with the extra field
\* VK_CHARSET; the model keeps one of the four.
IPizzaProviders == {"IPizzaProviderBase", "EEDanske", "EEKrediidipank",
                    "EENordea"}

HireProvider == "hire.EELHV"

Providers == IPizzaProviders \cup {HireProvider}

\* the provider's extra_fields
ExtraFields(p) ==
    IF p = "EEKrediidipank"
    THEN <<<<"VK_CHARSET", <<"U", "T", "F", "-", "8">>>>>>
    ELSE IF p = "EENordea"
    THEN <<<<"VK_ENCODING", <<"U", "T", "F", "-", "8">>>>>>
    ELSE <<>>

\* self._build_mac of the provider
BuildMac(p, fields, data) ==
    IF p = "EEDanske" THEN BuildMacBytes(fields, data)
    ELSE BuildMacChars(fields, data)

\* what _build_mac raises on a field whose value is None: len(None), or
\* None.encode in EEDanskeProvider
MissingFieldError(p) == IF p = "EEDanske" THEN "AttributeError" ELSE "TypeError"

S1111 == <<"1", "1", "1", "1">>
S1911 == <<"1", "9", "1", "1">>
S1012 == <<"1", "0", "1", "2">>
S5011 == <<"5", "0", "1", "1">>
S5111 == <<"5", "1", "1", "1">>
S5112 == <<"5", "1", "1", "2">>
S5113 == <<"5", "1", "1", "3">>
S008 == <<"0", "0", "8">>
SEUR == <<"E", "U", "R">>
SLHV == <<"L", "H", "V">>

\* parse_response's `fields` of the IPizza providers
Fields1111 == <<"SERVICE", "VERSION", "SND_ID", "REC_ID", "STAMP",
                "T_NO", "AMOUNT", "CURR", "REC_ACC", "REC_NAME",
                "SND_ACC", "SND_NAME", "REF", "MSG", "T_DATETIME">>

Fields1911 == <<"SERVICE", "VERSION", "SND_ID", "REC_ID", "STAMP",
                "REF", "MSG">>

IPizzaCodes == {S1111, S1911}

RespFields(resp) == IF resp = S1111 THEN Fields1111 ELSE Fields1911

\* the items saved as payment data
SuccessItems == {"T_NO", "AMOUNT", "CURR", "REC_ACC", "REC_NAME",
                 "SND_ACC", "SND_NAME", "REF", "MSG", "T_DATETIME"}

\* parse_response's `fields` of the hire provider
HireCodes == {S5111, S5112, S5113}

\* `not resp`
Falsy(resp) == resp = None \/ resp = <<>>

(***************************************************************************)
(* IPizzaProviderBase.parse_response (inherited by every bank variant).    *)
(* nowUtc is datetime.now(pytz.utc); dateutilChecksType tells whether the  *)
(* installed dateutil rejects parse(None) with TypeError (2.6 and later)   *)
(* or fails on it with AttributeError (earlier).                           *)
(***************************************************************************)
\* the guard `not resp and resp not in fields`
RejectedCode(resp, codes) == Falsy(resp) /\ resp \notin codes

\* the test `(now - td) < d < (now + td)`
InWindowPastOnly(d, nowUtc) == (nowUtc - Window) < d

InWindow(d, nowUtc) == (nowUtc - Window) < d /\ d < (nowUtc + Window)

\* the exception raised for a timestamp outside the window
StaleErrorInvalid == "InvalidResponseError"

StaleError == "Timeout"

\* `success = resp == '1111'`: the caller's argument is overwritten
IPizzaSuccessFromCaller(resp, success) == success

IPizzaSuccess(resp, success) == resp = S1111

\* the payment data of a verified, fresh response
IPizzaData(form, success) ==
    IF success THEN [item \in SuccessItems |-> Get(form, VK(item))]
    ELSE EmptyMap

IPizzaParseResponse(p, keychain, form, success, nowUtc, dateutilChecksType) ==
    LET resp == Get(form, "VK_SERVICE")
    IN
    IF RejectedCode(resp, IPizzaCodes) THEN Raise("InvalidResponseError")
    ELSE IF resp \notin IPizzaCodes THEN Raise("KeyError")
    ELSE
    LET order == RespFields(resp)
    IN
    IF \E i \in 1..Len(order) : ~Has(form, VK(order[i]))
    THEN Raise(MissingFieldError(p))
    ELSE IF ~Has(form, "VK_MAC") THEN Raise("TypeError")
    ELSE IF form["VK_MAC"].kind = "badpad" THEN Raise("TypeError")
    ELSE IF ~Verify(keychain.public_key, BuildMac(p, order, form), form["VK_MAC"])
    THEN Raise("InvalidResponseError")
    ELSE IF ~Has(form, "VK_T_DATETIME")
    THEN Raise(IF dateutilChecksType THEN "TypeError" ELSE "AttributeError")
    ELSE
    LET d == ParseDate(form["VK_T_DATETIME"])
    IN
    IF ~d.ok \/ ~d.aware THEN Raise("ValueError")
    ELSE IF ~InWindow(AsUtc(d), nowUtc) THEN Raise(StaleError)
    ELSE PaymentResponse(IPizzaData(form, IPizzaSuccess(resp, success)),
                         IPizzaSuccess(resp, success))

(***************************************************************************)
(* hire EELHVProvider.parse_response.  nowLocal is datetime.now(): the     *)
(* wall clock of the server's own time zone, without offset.               *)
(***************************************************************************)
\* the test `datetime.now() - timedelta(seconds=300) > t`
HireStale(t, nowLocal) == nowLocal - Window > t

\* the code's datetime text handed to strptime
HireDateText(s) == SplitPlus0(s)

\* `success = resp in fields`
HireSuccess(resp, success) == resp \in HireCodes

HireParseResponseChecksMac(keychain, form, success, nowLocal) ==
    LET resp == Get(form, "VK_SERVICE")
    IN
    IF RejectedCode(resp, HireCodes) THEN Raise("InvalidResponseError")
    ELSE IF ~Has(form, "VK_MAC") THEN Raise("TypeError")
    ELSE IF form["VK_MAC"].kind = "badpad" THEN Raise("TypeError")
    ELSE IF form["VK_MAC"].key # keychain.public_key
    THEN Raise("InvalidResponseError")
    ELSE IF ~Has(form, "VK_DATETIME") THEN Raise("AttributeError")
    ELSE
    LET t == Strptime(HireDateText(form["VK_DATETIME"]))
    IN
    IF ~t.ok THEN Raise("ValueError")
    ELSE IF HireStale(t.wall, nowLocal) THEN Raise("InvalidResponseError")
    ELSE PaymentResponse(
             IF HireSuccess(resp, success)
             THEN [data |-> Get(form, "VK_DATA"), code |-> resp]
             ELSE EmptyMap,
             HireSuccess(resp, success))

HireParseResponse(keychain, form, success, nowLocal) ==
    LET resp == Get(form, "VK_SERVICE")
    IN
    IF RejectedCode(resp, HireCodes) THEN Raise("InvalidResponseError")
    ELSE IF ~Has(form, "VK_DATETIME") THEN Raise("AttributeError")
    ELSE
    LET t == Strptime(HireDateText(form["VK_DATETIME"]))
    IN
    IF ~t.ok THEN Raise("ValueError")
    ELSE IF HireStale(t.wall, nowLocal) THEN Raise("InvalidResponseError")
    ELSE PaymentResponse(
             IF HireSuccess(resp, success)
             THEN [data |-> Get(form, "VK_DATA"), code |-> resp]
             ELSE EmptyMap,
             HireSuccess(resp, success))

(***************************************************************************)
(* _sign_request.  A field list is a sequence of <<name, value>> pairs.    *)
(* t is int(time.time()), nowLocal the server's wall clock and zone its    *)
(* UTC offset, as time.strftime and datetime.now() give them.              *)
(***************************************************************************)
\* dict(fields): a later pair of the same name wins
DictOf(fields) ==
    [k \in {fields[i][1] : i \in 1..Len(fields)} |->
        fields[CHOOSE i \in 1..Len(fields) :
                   /\ fields[i][1] = k
                   /\ \A j \in (i + 1)..Len(fields) : fields[j][1] # k][2]]

\* the field order of the MAC of request 1012
RequestMacOrderNoUrls == <<"SERVICE", "VERSION", "SND_ID", "STAMP", "AMOUNT",
                           "CURR", "REF", "MSG", "DATETIME">>

RequestMacOrder == <<"SERVICE", "VERSION", "SND_ID", "STAMP", "AMOUNT",
                     "CURR", "REF", "MSG", "RETURN", "CANCEL", "DATETIME">>

\* the basic fields, the provider's extra fields, the return urls
RequestFields(p, user, info, return_urls, t, nowLocal, zone) ==
    << <<"VK_SERVICE", S1012>>,
       <<"VK_VERSION", S008>>,
       <<"VK_SND_ID", user>>,
       <<"VK_STAMP", Str(t)>>,
       <<"VK_AMOUNT", info.amount>>,
       <<"VK_CURR", SEUR>>,
       <<"VK_DATETIME", TimeText(nowLocal, "+", zone)>>,
       <<"VK_REF", info.refnum>>,
       <<"VK_MSG", info.message>> >>
    \o ExtraFields(p)
    \o << <<"VK_RETURN", return_urls.return>>,
          <<"VK_CANCEL", return_urls.cancel>> >>

\* IPizzaProviderBase._sign_request: the fields with VK_MAC appended
IPizzaSignRequest(p, user, info, return_urls, t, nowLocal, zone) ==
    LET fields == RequestFields(p, user, info, return_urls, t, nowLocal, zone)
        m == BuildMac(p, RequestMacOrder, DictOf(fields))
    IN  fields \o << <<"VK_MAC", Sign(KeyChain.private_key, m)>> >>

\* the field order of the MAC of hire request 5011
HireMacOrder == <<"SERVICE", "VERSION", "SND_ID", "REC_ID", "STAMP", "DATA",
                  "RESPONSE", "RETURN", "DATETIME", "EMAIL", "PHONE">>

\* the offset hire's _sign_request writes after the server's wall clock: '+02:00'
HireZone == 7200

\* hire EELHVProvider._sign_request
HireSignRequest(p, user, info, kwargs, t, nowLocal, zone) ==
    LET fields ==
            << <<"VK_SERVICE", S5011>>,
               <<"VK_VERSION", S008>>,
               <<"VK_SND_ID", user>>,
               <<"VK_REC_ID", SLHV>>,
               <<"VK_STAMP", Str(t)>>,
               <<"VK_DATA", kwargs.xml>>,
               <<"VK_RESPONSE", kwargs.response>>,
               <<"VK_RETURN", kwargs.return>>,
               <<"VK_DATETIME", TimeText(nowLocal, "+", HireZone)>>,
               <<"VK_EMAIL", kwargs.email>>,
               <<"VK_PHONE", kwargs.phone>> >>
        m == BuildMacChars(HireMacOrder, DictOf(fields))
    IN  fields \o << <<"VK_MAC", Sign(KeyChain.private_key, m)>> >>

\* the provider's _sign_request
SignRequest(p, user, info, return_urls, t, nowLocal, zone) ==
    IF p = HireProvider
    THEN HireSignRequest(p, user,  info,
             [xml |-> info.message, response |-> return_urls.cancel,
              return |-> return_urls.return, email |-> <<>>, phone |-> <<>>],
             t, nowLocal, zone)
    ELSE IPizzaSignRequest(p, user, info, return_urls, t, nowLocal, zone)

\* the provider's parse_response on the server's clock
ParseResponse(p, keychain, form, success, nowUtc, zone, dateutilChecksType) ==
    IF p = HireProvider
    THEN HireParseResponse(keychain, form, success, nowUtc + zone)
    ELSE IPizzaParseResponse(p, keychain, form, success, nowUtc,
                             dateutilChecksType)

(***************************************************************************)
(* The environment: what the bank sends and what may happen to a form on   *)
(* its way through the payer's browser.                                    *)
(***************************************************************************)
\* the UTC offsets timestamps are written with: <<sign, seconds>>
Zones == {<<"+", 7200>>, <<"+", 0>>, <<"-", 3600>>}

ZoneOff(z) == IF z[1] = "+" THEN z[2] ELSE 0 - z[2]

\* the text of instant `utc` written in zone z
InstantText(utc, z) == TimeText(utc + ZoneOff(z), z[1], z[2])

\* how far from the bank's clock reading a callback's timestamp is
Deltas == {0 - (Window - 1), 0, Window, Window + 1}

\* the user the provider is configured with
User == <<"u", "s", "e", "r">>

IPizzaCallback(p, code, ts) ==
    LET f == IF code = S1111
             THEN [VK_SERVICE |-> S1111, VK_VERSION |-> S008,
                   VK_SND_ID |-> <<"b", "a", "n", "k">>, VK_REC_ID |-> User,
                   VK_STAMP |-> <<"1">>, VK_T_NO |-> <<"7">>,
                   VK_AMOUNT |-> <<"1", "0">>, VK_CURR |-> SEUR,
                   VK_REC_ACC |-> <<"a">>, VK_REC_NAME |-> <<"a", "{e'}">>,
                   VK_SND_ACC |-> <<"a">>, VK_SND_NAME |-> <<"a">>,
                   VK_REF |-> <<"1", "2">>, VK_MSG |-> <<"a">>,
                   VK_T_DATETIME |-> ts]
             ELSE [VK_SERVICE |-> S1911, VK_VERSION |-> S008,
                   VK_SND_ID |-> <<"b", "a", "n", "k">>, VK_REC_ID |-> User,
                   VK_STAMP |-> <<"1">>,
                   VK_REF |-> <<"1", "2">>, VK_MSG |-> <<"a">>]
    IN  f @@ ("VK_MAC" :> Sign("bank", BuildMac(p, RespFields(code), f)))

HireCallbackOrder == <<"SERVICE", "VERSION", "SND_ID", "REC_ID", "STAMP",
                       "DATA", "DATETIME">>

HireCallback(code, ts) ==
    LET f == [VK_SERVICE |-> code, VK_VERSION |-> S008, VK_SND_ID |-> SLHV,
              VK_REC_ID |-> User, VK_STAMP |-> <<"1">>, VK_DATA |-> <<"a">>,
              VK_DATETIME |-> ts]
    IN  f @@ ("VK_MAC" :> Sign("bank", BuildMacChars(HireCallbackOrder, f)))

\* the callbacks the bank sends at instant nowUtc
BankForms(p, nowUtc) ==
    IF p = HireProvider
    THEN {HireCallback(S5111, InstantText(nowUtc + d, z)) :
              d \in Deltas, z \in Zones}
         \cup {HireCallback(code, InstantText(nowUtc, <<"+", HireZone>>)) :
                   code \in HireCodes}
    ELSE {IPizzaCallback(p, S1111, InstantText(nowUtc + d, z)) :
              d \in Deltas, z \in Zones}
         \cup {IPizzaCallback(p, S1911, <<>>)}

\* the fields a form may get changed, added or removed
TamperFields == {VK(Fields1111[i]) : i \in 1..Len(Fields1111)}
                \cup {"VK_DATETIME", "VK_DATA", "VK_MAC", "VK_LANG"}

\* the values a field may be changed to
TamperValues(k) ==
    IF k = "VK_SERVICE"
    THEN {<<>>, S1111, S1911, S5111, <<"9", "9", "9", "9">>}
    ELSE IF k \in {"VK_T_DATETIME", "VK_DATETIME"}
    THEN {InstantText(Now0, <<"+", 7200>>), Str(Now0),
          InstantText(Now0 - (2 * Window), <<"+", 7200>>), <<"a">>}
    ELSE IF k = "VK_MAC"
    THEN {BadPadding, Sign("other", <<>>), Sign("bank", <<>>)}
    ELSE {<<"a", "{euro}">>}

(***************************************************************************)
(* The state.  A provider object holds no mutable state: the state is its  *)
(* configuration, the clock, the callback in flight and the last call with *)
(* its outcome.                                                            *)
(***************************************************************************)
VARIABLES
    provider,            \* the class of the provider object
    dateutilChecksType,  \* the installed dateutil rejects parse(None) by type
    serverOffset,        \* the UTC offset (seconds) of the server's time zone
    now,                 \* the clock: seconds, UTC
    orig,                \* the callback as the bank sent it (EmptyMap: none yet)
    form,                \* the callback as it reaches parse_response
    tampered,            \* a field of it was changed, added or removed on the way
    last                 \* the last call: its arguments and its outcome

vars == <<provider, dateutilChecksType, serverOffset, now, orig, form,
          tampered, last>>

NoCall == [op |-> "none"]

\* the server's time zones of the model
ServerOffsets == {0, 7200}

Infos == {[amount |-> <<"1", "0", ".", "0", "0">>, refnum |-> <<"1", "2">>,
           message |-> m] : m \in {<<"h", "i">>, <<"a", "{e'}">>}}

Urls == {<<"a">>, <<"b">>}

\* hire's provider does not use dateutil; the IPizza providers read the
\* server's zone only to write VK_DATETIME of a request
Init == /\ provider \in Providers
        /\ dateutilChecksType \in (IF provider = HireProvider THEN {TRUE} ELSE BOOLEAN)
        /\ serverOffset \in (IF provider = HireProvider THEN ServerOffsets ELSE {HireZone})
        /\ now = Now0
        /\ orig = EmptyMap
        /\ form = EmptyMap
        /\ tampered = FALSE
        /\ last = NoCall

\* the clock advances while the callback is on its way
Tick == /\ now < Now0 + MaxTicks
        /\ orig # EmptyMap
        /\ last = NoCall
        /\ now' = now + 1
        /\ UNCHANGED <<provider, dateutilChecksType, serverOffset, orig, form,
                       tampered, last>>

\* the application calls _sign_request
CallSignRequest ==
    /\ orig = EmptyMap
    /\ last = NoCall
    /\ \E info \in Infos, r \in Urls, c \in Urls :
         last' = [op |-> "_sign_request", info |-> info,
                  return_urls |-> [return |-> r, cancel |-> c], now |-> now,
                  fields |-> SignRequest(provider, User, info,
                                 [return |-> r, cancel |-> c], now,
                                 now + serverOffset, serverOffset)]
    /\ UNCHANGED <<provider, dateutilChecksType, serverOffset, now, orig,
                   form, tampered>>

\* the bank sends a callback
Deliver ==
    /\ orig = EmptyMap
    /\ \E f \in BankForms(provider, now) :
         /\ orig' = f
         /\ form' = f
    /\ last' = NoCall
    /\ UNCHANGED <<provider, dateutilChecksType, serverOffset, now, tampered>>

\* a field of the callback is changed or added on the way
Tamper ==
    /\ orig # EmptyMap
    /\ last = NoCall
    /\ ~tampered
    /\ \E k \in TamperFields : \E v \in TamperValues(k) :
         /\ IF Has(form, k) THEN form[k] # v ELSE TRUE
         /\ form' = [x \in DOMAIN form \cup {k} |-> IF x = k THEN v ELSE form[x]]
    /\ tampered' = TRUE
    /\ UNCHANGED <<provider, dateutilChecksType, serverOffset, now, orig, last>>

\* a field of the callback is removed on the way
Remove ==
    /\ orig # EmptyMap
    /\ last = NoCall
    /\ ~tampered
    /\ \E k \in DOMAIN form :
         form' = [x \in DOMAIN form \ {k} |-> form[x]]
    /\ tampered' = TRUE
    /\ UNCHANGED <<provider, dateutilChecksType, serverOffset, now, orig, last>>

\* the application calls parse_response on the callback
CallParseResponse ==
    /\ orig # EmptyMap
    /\ \E success \in BOOLEAN :
         last' = [op |-> "parse_response", form |-> form, now |-> now,
                  res |-> ParseResponse(provider, KeyChain, form, success, now,
                              serverOffset, dateutilChecksType)]
    /\ UNCHANGED <<provider, dateutilChecksType, serverOffset, now, orig,
                   form, tampered>>

\* the field orders and values _build_mac is called with directly
MacOrders == {<<>>, <<"REF">>, <<"REF", "MSG">>, <<"MSG", "REF">>}

MacTexts == {<<>>, <<"a">>, <<"1", "2">>, <<"a", "{e'}">>, <<"{euro}">>,
             <<"a", "{euro}", "b">>, [i \in 1..1000 |-> "a"]}

\* the application (or a test) calls the provider's _build_mac
CallBuildMac ==
    /\ orig = EmptyMap
    /\ last = NoCall
    /\ \E fields \in MacOrders, ref \in MacTexts, msg \in MacTexts :
         LET data == [VK_REF |-> ref, VK_MSG |-> msg]
         IN  last' = [op |-> "_build_mac", fields |-> fields, data |-> data,
                      out |-> BuildMac(provider, fields, data)]
    /\ UNCHANGED <<provider, dateutilChecksType, serverOffset, now, orig,
                   form, tampered>>

Next == \/ Tick
        \/ CallSignRequest
        \/ CallBuildMac
        \/ Deliver
        \/ Tamper
        \/ Remove
        \/ CallParseResponse

Spec == Init /\ [][Next]_vars

(***************************************************************************)
(* What the claims speak of.                                               *)
(***************************************************************************)
Parsed == last.op = "parse_response"

IsIPizza == provider \in IPizzaProviders

IsHire == provider = HireProvider

\* the codes parse_response of the provider recognizes
Recognized == IF IsHire THEN HireCodes ELSE IPizzaCodes

\* the form carries every field of the order
Carries(f, order) == \A i \in 1..Len(order) : Has(f, VK(order[i]))

\* VK_MAC of the form is the bank's signature over the fields of the order
ValidMac(f, order) ==
    /\ Carries(f, order)
    /\ Has(f, "VK_MAC")
    /\ f["VK_MAC"] = Sign("bank", BuildMac(provider, order, f))

\* the field of the form holds a timestamp with a UTC offset
HasInstant(f, k) ==
    /\ Has(f, k)
    /\ ParseDate(f[k]).ok
    /\ ParseDate(f[k]).aware

\* the instant (UTC seconds) such a timestamp denotes
Instant(f, k) == ParseDate(f[k]).wall - ParseDate(f[k]).off

\* the fields of the 1111 order whose value differs between two forms
Changed1111(f, g) ==
    {i \in 1..Len(Fields1111) :
        Get(f, VK(Fields1111[i])) # Get(g, VK(Fields1111[i]))}

(***************************************************************************)
(* C1: for both providers, a form whose VK_SERVICE is absent, empty or not *)
(* one of the provider's recognized codes makes parse_response fail with   *)
(* InvalidResponseError; no PaymentResponse is returned.                   *)
(* The code's guard is `not resp and resp not in fields`: a non-empty      *)
(* unrecognized code passes it.                                            *)
(***************************************************************************)
C1_UnrecognizedCodeRejected ==
    (Parsed /\ (Falsy(Get(last.form, "VK_SERVICE"))
                \/ Get(last.form, "VK_SERVICE") \notin Recognized))
        => last.res.kind = "InvalidResponseError"

(***************************************************************************)
(* C2: from a 1111 callback with a valid VK_MAC and a fresh T_DATETIME,    *)
(* changing the value of one field of the 1111 MAC order, VK_MAC left as   *)
(* it is, makes IPizzaProviderBase.parse_response fail with                *)
(* InvalidResponseError; changing or adding a field outside that order     *)
(* (other than VK_MAC) leaves the returned PaymentResponse as it was.      *)
(* (Fresh is taken as strictly inside the window, which the code accepts.) *)
(***************************************************************************)
C2_TamperingRejected ==
    (/\ Parsed
     /\ provider = "IPizzaProviderBase"
     /\ Get(orig, "VK_SERVICE") = S1111
     /\ ValidMac(orig, Fields1111)
     /\ HasInstant(orig, "VK_T_DATETIME")
     /\ last.now - Window < Instant(orig, "VK_T_DATETIME")
     /\ Instant(orig, "VK_T_DATETIME") < last.now + Window
     /\ DOMAIN orig \subseteq DOMAIN last.form
     /\ last.form["VK_MAC"] = orig["VK_MAC"])
        => /\ Cardinality(Changed1111(orig, last.form)) = 1
                => last.res.kind = "InvalidResponseError"
           /\ Changed1111(orig, last.form) = {}
                => last.res = IPizzaParseResponse(provider, KeyChain, orig,
                                  TRUE, last.now, dateutilChecksType)

(***************************************************************************)
(* C3: a form with VK_SERVICE = '1911' that carries the fields of the      *)
(* failure schema and a valid VK_MAC over them makes                       *)
(* IPizzaProviderBase.parse_response return a PaymentResponse with         *)
(* success = false whose data holds the reference and the message only;    *)
(* it does not raise.                                                      *)
(***************************************************************************)
C3_FailureResponseReturned ==
    (/\ Parsed
     /\ IsIPizza
     /\ Get(last.form, "VK_SERVICE") = S1911
     /\ ValidMac(last.form, Fields1911))
        => last.res = PaymentResponse(
                          [item \in {"REF", "MSG"} |-> last.form[VK(item)]],
                          FALSE)

(***************************************************************************)
(* C4: a form with VK_SERVICE = '1111', a valid VK_MAC and a T_DATETIME    *)
(* inside the freshness window makes IPizzaProviderBase.parse_response     *)
(* return a PaymentResponse with success = true whose data has exactly the *)
(* ten keys T_NO .. T_DATETIME, each with the form's value of the VK_      *)
(* field; the caller's `success` argument does not matter.                 *)
(***************************************************************************)
TenKeys == {"T_NO", "AMOUNT", "CURR", "REC_ACC", "REC_NAME", "SND_ACC",
            "SND_NAME", "REF", "MSG", "T_DATETIME"}

\* the call was made on a validly signed 1111 form with an offset-bearing time
Signed1111 ==
    /\ Parsed
    /\ IsIPizza
    /\ Get(last.form, "VK_SERVICE") = S1111
    /\ ValidMac(last.form, Fields1111)
    /\ HasInstant(last.form, "VK_T_DATETIME")

SuccessReturned ==
    /\ last.res = PaymentResponse([k \in TenKeys |-> last.form[VK(k)]], TRUE)
    /\ \A success \in BOOLEAN :
         IPizzaParseResponse(provider, KeyChain, last.form, success, last.now,
                             dateutilChecksType) = last.res

\* C4 as claimed, the window being the closed interval [now - 300, now + 300]
\* of the specification's freshness check
C4_SuccessInClosedWindow ==
    (/\ Signed1111
     /\ last.now - Window <= Instant(last.form, "VK_T_DATETIME")
     /\ Instant(last.form, "VK_T_DATETIME") <= last.now + Window)
        => SuccessReturned

\* C4 as amended: the same for a T_DATETIME strictly inside the window
C4_SuccessInOpenWindow ==
    (/\ Signed1111
     /\ last.now - Window < Instant(last.form, "VK_T_DATETIME")
     /\ Instant(last.form, "VK_T_DATETIME") < last.now + Window)
        => SuccessReturned

C4_Witness ==
    /\ Signed1111
    /\ last.res.kind = "PaymentResponse"
    /\ last.res.success
    /\ Has(last.form, "VK_LANG")

(***************************************************************************)
(* C5: for a validly signed payment-initiation callback, parse_response    *)
(* accepts the timestamp d exactly when now - 300 <= d <= now + 300, both  *)
(* ends included.                                                          *)
(***************************************************************************)
\* the call was made on a validly signed form of a recognized code with an
\* offset-bearing time
SignedCallback ==
    /\ Parsed
    /\ IsIPizza
    /\ Get(last.form, "VK_SERVICE") \in IPizzaCodes
    /\ ValidMac(last.form, RespFields(last.form["VK_SERVICE"]))
    /\ HasInstant(last.form, "VK_T_DATETIME")

\* C5 as claimed: accepted exactly when now - 300 <= d <= now + 300
C5_ClosedWindow ==
    SignedCallback
        => (last.res.kind = "PaymentResponse"
              <=> /\ last.now - Window <= Instant(last.form, "VK_T_DATETIME")
                  /\ Instant(last.form, "VK_T_DATETIME") <= last.now + Window)

\* C5 as amended: the timestamp is accepted exactly when
\* now - 300 < d < now + 300; d = now - 300 and d = now + 300 are rejected
C5_OpenWindow ==
    SignedCallback
        => (last.res.kind = "PaymentResponse"
              <=> /\ last.now - Window < Instant(last.form, "VK_T_DATETIME")
                  /\ Instant(last.form, "VK_T_DATETIME") < last.now + Window)

C5_Witness ==
    /\ SignedCallback
    /\ Instant(last.form, "VK_T_DATETIME") = last.now + Window
    /\ last.res.kind # "PaymentResponse"

(***************************************************************************)
(* C6: in every variant a callback with a recognized code whose timestamp  *)
(* the variant's freshness check rejects fails with InvalidResponseError,  *)
(* with a valid and with an invalid signature alike; no other error kind   *)
(* is raised for it.                                                       *)
(***************************************************************************)
\* the call was made on a form of a recognized code that carries the fields
\* of its order and a decodable VK_MAC, and the freshness check of the
\* variant rejects its timestamp
StaleCallback ==
    /\ Parsed
    /\ Get(last.form, "VK_SERVICE") \in Recognized
    /\ IF IsHire
       THEN /\ Has(last.form, "VK_DATETIME")
            /\ Strptime(SplitPlus0(last.form["VK_DATETIME"])).ok
            /\ Strptime(SplitPlus0(last.form["VK_DATETIME"])).wall
                   < last.now + serverOffset - Window
       ELSE /\ Carries(last.form, RespFields(last.form["VK_SERVICE"]))
            /\ Has(last.form, "VK_MAC")
            /\ last.form["VK_MAC"].kind = "sig"
            /\ HasInstant(last.form, "VK_T_DATETIME")
            /\ \/ Instant(last.form, "VK_T_DATETIME") <= last.now - Window
               \/ Instant(last.form, "VK_T_DATETIME") >= last.now + Window

\* C6 as claimed: such a callback fails with InvalidResponseError
C6_StaleIsInvalidResponse ==
    StaleCallback => last.res.kind = "InvalidResponseError"

\* C6 as amended: such a callback fails with InvalidResponseError in the
\* hire provider and, in the IPizza providers, when its signature is
\* invalid; with a valid signature the IPizza providers fail with
\* requests.exceptions.Timeout
C6_StaleIsInvalidOrTimeout ==
    StaleCallback
        => last.res.kind =
             IF IsIPizza /\ ValidMac(last.form, RespFields(last.form["VK_SERVICE"]))
             THEN "Timeout"
             ELSE "InvalidResponseError"

C6_Witness ==
    /\ StaleCallback
    /\ IsIPizza
    /\ ValidMac(last.form, RespFields(last.form["VK_SERVICE"]))
    /\ last.res.kind = "Timeout"

(***************************************************************************)
(* C7: hire's parse_response rejects a callback exactly when the instant   *)
(* VK_DATETIME denotes, its UTC offset taken into account, is more than    *)
(* 300 seconds older than now; a future timestamp is accepted; two texts   *)
(* of one instant with different offsets get the same verdict.             *)
(***************************************************************************)
C7_HireComparesInstants ==
    (/\ Parsed
     /\ IsHire
     /\ Get(last.form, "VK_SERVICE") \in HireCodes
     /\ HasInstant(last.form, "VK_DATETIME"))
        => IF Instant(last.form, "VK_DATETIME") < last.now - Window
           THEN last.res.kind = "InvalidResponseError"
           ELSE last.res.kind = "PaymentResponse"

(***************************************************************************)
(* C8: the MAC string IPizzaProviderBase._sign_request signs covers none   *)
(* of the extra fields and none of the return-URL fields: requests that    *)
(* differ only in those, built at the same instant, get the same MAC       *)
(* string; the signature is the final field of the returned list.          *)
(***************************************************************************)
SignedRequest == last.op = "_sign_request" /\ IsIPizza

\* the MAC string the final field's signature was made over
MacOf(fields) == fields[Len(fields)][2].m

\* the providers that differ from p in their extra fields only
ExtraVariants(p) == IF p = "EEDanske" THEN {p} ELSE IPizzaProviders \ {"EEDanske"}

\* the request _sign_request returns for the same payment at the same instant
SameRequestWith(p, r, c) ==
    IPizzaSignRequest(p, User, last.info, [return |-> r, cancel |-> c],
                      last.now, last.now + serverOffset, serverOffset)

SignatureIsLast ==
    /\ last.fields[Len(last.fields)][1] = "VK_MAC"
    /\ \A i \in 1..(Len(last.fields) - 1) : last.fields[i][1] # "VK_MAC"

KeyChains == {[private_key |-> "merchant", public_key |-> k] :
                 k \in {"bank", "other"}}

\* C9: whatever VK_MAC is put in place of the form's, or none, and whatever
\* the key chain, hire's parse_response gives the outcome it gave
C9_HireIgnoresMac ==
    (Parsed /\ IsHire)
        => \A kc \in KeyChains :
             /\ \A mac \in TamperValues("VK_MAC") \cup {orig["VK_MAC"]} :
                  HireParseResponse(kc,
                      [k \in DOMAIN last.form \cup {"VK_MAC"} |->
                          IF k = "VK_MAC" THEN mac ELSE last.form[k]],
                      TRUE, last.now + serverOffset) = last.res
             /\ HireParseResponse(kc,
                    [k \in DOMAIN last.form \ {"VK_MAC"} |-> last.form[k]],
                    TRUE, last.now + serverOffset) = last.res

C9_Witness ==
    /\ Parsed
    /\ IsHire
    /\ last.res.kind = "PaymentResponse"
    /\ last.res.success
    /\ Has(last.form, "VK_MAC")
    /\ last.form["VK_MAC"].key # "bank"

(***************************************************************************)
(* C10: _build_mac, counting characters (IPizzaProviderBase) or bytes      *)
(* (EEDanskeProvider), gives for every field order and every assignment of *)
(* texts the concatenation of a 3-digit zero-padded length and the value,  *)
(* and reading it back length by length recovers the values.               *)
(***************************************************************************)
BuiltMac == last.op = "_build_mac"

ByteMode == provider = "EEDanske"

\* n as exactly three decimal digits
ThreeDigits(n) == <<Digits[((n \div 100) % 10) + 1], Digits[((n \div 10) % 10) + 1],
                    Digits[(n % 10) + 1]>>

\* the characters of UTF-8 bytes
Utf8Decode(b) ==
    LET IsLead(i) == b[i] \notin {"A9", "82", "AC"}
        leads == SelectSeq([i \in 1..Len(b) |-> i], IsLead)
    IN  [k \in 1..Len(leads) |->
            IF b[leads[k]] = "C3" THEN "{e'}"
            ELSE IF b[leads[k]] = "E2" THEN "{euro}"
            ELSE b[leads[k]]]

\* the characters of ISO-8859-1 bytes
Latin1Decode(b) == [i \in 1..Len(b) |-> IF b[i] = "E9" THEN "{e'}" ELSE b[i]]

\* the values read back: a 3-digit length, that many units, and so on
RECURSIVE ReadMac(_)
ReadMac(u) ==
    IF Len(u) = 0 THEN <<>>
    ELSE IF Len(u) < 3 THEN << <<"?">> >>
    ELSE IF ~IsDigits(SubSeq(u, 1, 3)) THEN << <<"?">> >>
    ELSE LET n == Int10(SubSeq(u, 1, 3))
         IN  IF Len(u) < 3 + n THEN << <<"?">> >>
             ELSE <<SubSeq(u, 4, 3 + n)>> \o ReadMac(SubSeq(u, 4 + n, Len(u)))

\* the values of the call, in the order of its fields
CallValues == [i \in 1..Len(last.fields) |-> last.data[VK(last.fields[i])]]

\* a value without the characters ISO-8859-1 lacks
InLatin1(c) == c # "{euro}"

\* the length of a value in the units of the mode
UnitLen(v) == IF ByteMode THEN Len(Latin1Ignore(v)) ELSE Len(v)

\* the output is the lengths and values (as encoded) in order, no separators
IsLengthPrefixed(values) ==
    last.out =
        IF ByteMode
        THEN Join([i \in 1..Len(values) |->
                 ThreeDigits(Len(Latin1Ignore(values[i]))) \o Latin1Ignore(values[i])])
        ELSE Utf8(Join([i \in 1..Len(values) |->
                 ThreeDigits(Len(values[i])) \o values[i]]))

\* the values read back from the output, as texts
ReadBack ==
    IF ByteMode
    THEN LET r == ReadMac(last.out) IN [i \in 1..Len(r) |-> Latin1Decode(r[i])]
    ELSE ReadMac(Utf8Decode(last.out))

\* C10 as claimed: the output is length-prefixed and reads back as the values
C10_RoundTripOfAnyValues ==
    BuiltMac => IsLengthPrefixed(CallValues) /\ ReadBack = CallValues

\* C10 as amended: the same for values of fewer than 1000 units (characters,
\* resp. bytes); in byte-count mode what is read back is each value without
\* the characters ISO-8859-1 lacks, which the MAC string does not carry
C10_RoundTripOfShortValues ==
    (BuiltMac /\ \A i \in 1..Len(CallValues) : UnitLen(CallValues[i]) < 1000)
        => /\ IsLengthPrefixed(CallValues)
           /\ ReadBack = IF ByteMode
                         THEN [i \in 1..Len(CallValues) |->
                                  SelectSeq(CallValues[i], InLatin1)]
                         ELSE CallValues

C10_Witness ==
    /\ BuiltMac
    /\ ByteMode
    /\ Len(last.fields) = 2
    /\ last.data["VK_REF"] = <<"a", "{e'}">>
    /\ last.data["VK_MSG"] = <<"a", "{euro}", "b">>
    /\ ReadBack = <<last.data["VK_REF"], <<"a", "b">> >>

=============================================================================
